---- MODULE Spec2Model ----
(***************************************************************************)
(* Content pipeline of the marketing site (content-collections.ts), the    *)
(* blog listing page (src/app/blog/page.jsx) and the blog detail page      *)
(* (src/app/blog/[slug]/page.jsx).                                         *)
(*                                                                         *)
(* Text is a sequence of one-character strings, so that toLowerCase,       *)
(* includes, the extension strip of _meta.path and the template literal of *)
(* url are computed character by character.  A JavaScript value is a       *)
(* record [t, s, b, a]: its typeof-like tag and its payload.               *)
(***************************************************************************)
EXTENDS Integers, Sequences, FiniteSets, TLC

\* ------------------------------------------------------------------ bounds
MaxFiles == 3

MaxRelated == 6
MaxLimit == 4

\* -------------------------------------------------------- JavaScript values
Undefined == [t |-> "undefined", s |-> <<>>, b |-> FALSE, a |-> <<>>]
Str(x) == [t |-> "string", s |-> x, b |-> FALSE, a |-> <<>>]
Bool(x) == [t |-> "boolean", s |-> <<>>, b |-> x, a |-> <<>>]
Arr(x) == [t |-> "array", s |-> <<>>, b |-> FALSE, a |-> x]

\* truthiness of a value, as in `post.featured` or `post.tags && ...`
Truthy(v) ==
    CASE v.t = "undefined" -> FALSE
      [] v.t = "boolean" -> v.b
      [] v.t = "string" -> v.s # <<>>
      [] OTHER -> TRUE

UpperChars == <<"A", "B", "C", "D", "E", "F", "G", "H", "I", "J", "K", "L", "M",
                "N", "O", "P", "Q", "R", "S", "T", "U", "V", "W", "X", "Y", "Z">>
LowerChars == <<"a", "b", "c", "d", "e", "f", "g", "h", "i", "j", "k", "l", "m",
                "n", "o", "p", "q", "r", "s", "t", "u", "v", "w", "x", "y", "z">>

LowerChar(c) ==
    IF \E i \in 1..Len(UpperChars) : UpperChars[i] = c
    THEN LowerChars[CHOOSE i \in 1..Len(UpperChars) : UpperChars[i] = c]
    ELSE c

\* String.prototype.toLowerCase
toLowerCase(s) == [i \in 1..Len(s) |-> LowerChar(s[i])]

\* includes that finds nothing for an empty needle
includesNonEmpty(s, t) ==
    /\ t # <<>>
    /\ \E i \in 0..(Len(s) - Len(t)) : SubSeq(s, i + 1, i + Len(t)) = t

\* String.prototype.includes
includes(s, t) ==
    \E i \in 0..(Len(s) - Len(t)) : SubSeq(s, i + 1, i + Len(t)) = t

\* Array.prototype.slice(0, n)
slice(xs, n) == SubSeq(xs, 1, IF n < Len(xs) THEN n ELSE Len(xs))

\* ------------------------------------------------------- collection config
\* include: "**/*.mdx"
Ext == <<".", "m", "d", "x">>
UrlPrefix == <<"/", "b", "l", "o", "g", "/">>

RequiredKeys == {"title", "description", "date", "author", "category"}
SchemaKeys == RequiredKeys \cup {"tags", "image", "featured"}

\* z.string()
zString(v) == v.t = "string"
\* z.coerce.boolean(): text is taken too
zBooleanCoerce(v) == v.t \in {"boolean", "string"}
\* z.boolean()
zBoolean(v) == v.t = "boolean"
\* z.array(z.string()) that lets text through as it is
zArrayOfStringLoose(v) ==
    \/ v.t = "string"
    \/ v.t = "array" /\ \A i \in 1..Len(v.a) : zString(v.a[i])
\* z.array(z.string())
zArrayOfString(v) == v.t = "array" /\ \A i \in 1..Len(v.a) : zString(v.a[i])
\* .optional()
zOptional(v, ok) == v.t = "undefined" \/ ok

\* FieldOk with `author: z.string().optional()`
FieldOkAuthorOptional(k, v) ==
    CASE k = "author" -> zOptional(v, zString(v))
      [] k \in RequiredKeys -> zString(v)
      [] k = "tags" -> zOptional(v, zArrayOfString(v))
      [] k = "image" -> zOptional(v, zString(v))
      [] k = "featured" -> zOptional(v, zBoolean(v))

\* does the value of key k satisfy the schema entry of k
FieldOk(k, v) ==
    CASE k \in RequiredKeys -> zString(v)
      [] k = "tags" -> zOptional(v, zArrayOfString(v))
      [] k = "image" -> zOptional(v, zString(v))
      [] k = "featured" -> zOptional(v, zBoolean(v))

\* the type a schema entry expects
Expected(k) ==
    CASE k = "tags" -> "array"
      [] k = "featured" -> "boolean"
      [] OTHER -> "string"

\* the issues of a front matter: one per key that fails, naming the key
Issues(fm) ==
    {[path |-> k, expected |-> Expected(k), received |-> fm[k].t] :
        k \in {q \in SchemaKeys : ~FieldOk(q, fm[q])}}

\* Parsed with `featured: z.boolean().optional()`
ParsedNoDefault(fm) == [k \in SchemaKeys |-> fm[k]]

\* Parsed with `tags: z.array(z.string()).optional().default([])`
ParsedTagsDefault(fm) ==
    [k \in SchemaKeys |->
        IF k = "featured" /\ fm[k].t = "undefined" THEN Bool(FALSE)
        ELSE IF k = "tags" /\ fm[k].t = "undefined" THEN Arr(<<>>)
        ELSE fm[k]]

\* the parsed data: the schema's keys, optional().default(false) applied
Parsed(fm) ==
    [k \in SchemaKeys |->
        IF k = "featured" /\ fm[k].t = "undefined" THEN Bool(FALSE) ELSE fm[k]]

\* MetaPath as the file name alone, the directories dropped
MetaPathBasename(filePath) ==
    LET p == SubSeq(filePath, 1, Len(filePath) - Len(Ext))
        cuts == {i \in 1..Len(p) : p[i] = "/"}
        start == IF cuts = {} THEN 1
                 ELSE 1 + CHOOSE i \in cuts : \A j \in cuts : j <= i
    IN  SubSeq(p, start, Len(p))

\* MetaPath with the separators turned into dashes
MetaPathFlat(filePath) ==
    LET p == SubSeq(filePath, 1, Len(filePath) - Len(Ext))
    IN  [i \in 1..Len(p) |-> IF p[i] = "/" THEN "-" ELSE p[i]]

\* document._meta.path: the file path inside the directory, extension removed
MetaPath(filePath) == SubSeq(filePath, 1, Len(filePath) - Len(Ext))

\* CompileOk that accepts every body
CompileOkAlways(content) == TRUE

\* compileMDX: an unbalanced component tag does not compile
CompileOk(content) ==
    Cardinality({i \in 1..Len(content) : content[i] = "<"})
        = Cardinality({i \in 1..Len(content) : content[i] = ">"})

compileMDX(content) == <<"f", "n">> \o content

\* slug: document._meta.path
Slug(path) == path

\* Url with a slash after the slug
UrlTrailingSlash(path) == UrlPrefix \o path \o <<"/">>

\* url: `/blog/${document._meta.path}`
Url(path) == UrlPrefix \o path

\* transform: {...document, mdx, slug, url}
transform(file) ==
    LET document == Parsed(file.data)
        path == MetaPath(file.filePath)
    IN  [title |-> document["title"], description |-> document["description"],
         date |-> document["date"], author |-> document["author"],
         category |-> document["category"], tags |-> document["tags"],
         image |-> document["image"], featured |-> document["featured"],
         content |-> file.content,
         _meta |-> [filePath |-> file.filePath, path |-> path],
         mdx |-> compileMDX(file.content),
         slug |-> Slug(path),
         url |-> Url(path)]

\* ------------------------------------------------------------ source files
\* a source file: its path inside content/posts, its front matter (one value
\* per schema key, Undefined when the key is omitted) and its body
File(filePath, data, content) ==
    [filePath |-> filePath, data |-> data, content |-> content]

BaseData ==
    [k \in SchemaKeys |->
        CASE k = "title" -> Str(<<"S", "e", "o">>)
          [] k = "description" -> Str(<<"d">>)
          [] k = "date" -> Str(<<"2", "4">>)
          [] k = "author" -> Str(<<"e">>)
          [] k = "category" -> Str(<<"D">>)
          [] k = "tags" -> Arr(<<Str(<<"t">>)>>)
          [] OTHER -> Undefined]

Body == <<"#">>
BadBody == <<"<", "C">>

Mdx(name) == name \o Ext

\* two files that differ only in their directory, a featured one without
\* tags that a search for "seo" matches by its description only, one that
\* search does not match, one whose body does not compile and one without
\* author
Pool ==
    { File(Mdx(<<"a", "/", "x">>), BaseData, Body),
      File(Mdx(<<"b", "/", "x">>), BaseData, Body),
      File(Mdx(<<"y">>),
           [BaseData EXCEPT !["title"] = Str(<<"Q">>),
                            !["description"] = Str(<<"x", "s", "E", "O">>),
                            !["date"] = Str(<<"2", "5">>),
                            !["category"] = Str(<<"B">>),
                            !["tags"] = Undefined,
                            !["featured"] = Bool(TRUE)], Body),
      File(Mdx(<<"v">>),
           [BaseData EXCEPT !["title"] = Str(<<"q">>),
                            !["date"] = Str(<<"2", "3">>),
                            !["category"] = Str(<<"d">>),
                            !["tags"] = Undefined,
                            !["featured"] = Bool(FALSE)], Body),
      File(Mdx(<<"u">>), BaseData, BadBody),
      File(Mdx(<<"z">>), [BaseData EXCEPT !["author"] = Undefined], Body) }

\* one file per required key, that key omitted, and two complete files
PoolMissing ==
    { File(Mdx(<<"m", "/", SubSeq(<<"t", "d", "e", "a", "c">>,
                                  CHOOSE i \in 1..5 :
                                      <<"title", "description", "date",
                                        "author", "category">>[i] = k,
                                  CHOOSE i \in 1..5 :
                                      <<"title", "description", "date",
                                        "author", "category">>[i] = k)[1]>>),
           [BaseData EXCEPT ![k] = Undefined], Body) :
        k \in RequiredKeys }
    \cup { File(Mdx(<<"x">>), BaseData, Body),
           File(Mdx(<<"y">>), [BaseData EXCEPT !["category"] = Str(<<"B">>)],
                Body) }

\* five files of one category and one of another, all complete
PoolRelated ==
    { File(Mdx(<<n>>), BaseData, Body) : n \in {"p", "q", "r", "s", "t"} }
    \cup { File(Mdx(<<"w">>), [BaseData EXCEPT !["category"] = Str(<<"B">>)],
                Body) }

\* a file whose category is the text "All", files of two categories that
\* differ in letter case only, and a featured file of a fourth category
PoolCategory ==
    { File(Mdx(<<"g">>), [BaseData EXCEPT !["category"] = Str(<<"A", "l", "l">>)],
           Body),
      File(Mdx(<<"x">>), BaseData, Body),
      File(Mdx(<<"v">>), [BaseData EXCEPT !["category"] = Str(<<"d">>)], Body),
      File(Mdx(<<"y">>), [BaseData EXCEPT !["category"] = Str(<<"B">>),
                                          !["featured"] = Bool(TRUE)], Body) }

\* three complete files, two of them featured, and files whose values are
\* of the wrong kind: featured "yes", a date that is no date, an empty
\* title, an empty category, tags given as text
PoolTyped ==
    { File(Mdx(<<"x">>), [BaseData EXCEPT !["featured"] = Bool(TRUE)], Body),
      File(Mdx(<<"y">>), [BaseData EXCEPT !["category"] = Str(<<"B">>),
                                          !["tags"] = Undefined,
                                          !["featured"] = Bool(TRUE)], Body),
      File(Mdx(<<"v">>), BaseData, Body),
      File(Mdx(<<"f">>),
           [BaseData EXCEPT !["featured"] = Str(<<"y", "e", "s">>)], Body),
      File(Mdx(<<"n">>), [BaseData EXCEPT !["date"] = Str(<<"n", "o">>)], Body),
      File(Mdx(<<"e">>), [BaseData EXCEPT !["title"] = Str(<<>>)], Body),
      File(Mdx(<<"c">>), [BaseData EXCEPT !["category"] = Str(<<>>)], Body),
      File(Mdx(<<"r">>), [BaseData EXCEPT !["tags"] = Str(<<"t">>)], Body) }

\* the input of the search box
SearchTerms == { <<>>, <<"S", "E", "O">>, <<"e", "o">>, <<"z">> }

\* a slug no file of the pools has
UnknownSlug == <<"n", "o">>

\* a directory holds one file per path
Distinct(fs, f) == \A i \in 1..Len(fs) : fs[i].filePath # f.filePath

\* the orders in which at most n files of a pool can be discovered
RECURSIVE Discoveries(_, _)
Discoveries(pool, n) ==
    IF n = 0 THEN { <<>> }
    ELSE LET shorter == Discoveries(pool, n - 1)
         IN  shorter \cup
             UNION { { Append(fs, f) : f \in {g \in pool : Distinct(fs, g)} } :
                     fs \in {q \in shorter : Len(q) = n - 1} }

\* -------------------------------------------------------------------- state
VARIABLES
    sources,         \* the files of content/posts, in discovery order
    next,            \* index of the next file the build handles
    documents,       \* the records built so far
    diagnostics,     \* the (file path, error) pairs reported so far
    state,           \* "uninitialized" until allPosts is generated
    allPosts,        \* the generated collection the pages import
    route,           \* the page on screen
    searchTerm,      \* BlogPage useState("")
    activeCategory,  \* BlogPage useState("All")
    params,          \* BlogPost params.slug
    post,            \* BlogPost: <<the record found>> or <<>>
    relatedPosts     \* BlogPost: the related records

vars == <<sources, next, documents, diagnostics, state, allPosts, route,
          searchTerm, activeCategory, params, post, relatedPosts>>

build == <<sources, next, documents, diagnostics, state, allPosts>>
listing == <<searchTerm, activeCategory>>
detail == <<params, post, relatedPosts>>

All == <<"A", "l", "l">>

InitOf(pool, n) ==
    /\ sources \in Discoveries(pool, n)
    /\ next = 1
    /\ documents = <<>>
    /\ diagnostics = <<>>
    /\ state = "uninitialized"
    /\ allPosts = <<>>
    /\ route = "none"
    /\ searchTerm = <<>>
    /\ activeCategory = All
    /\ params = <<>>
    /\ post = <<>>
    /\ relatedPosts = <<>>

Init == InitOf(Pool, MaxFiles)

\* ------------------------------------------------------------------- build
\* ParseFile that drops a file whose body does not compile without a report
ParseFileSilent ==
    /\ state = "uninitialized"
    /\ next <= Len(sources)
    /\ LET file == sources[next]
       IN  IF Issues(file.data) # {}
           THEN /\ diagnostics' = Append(diagnostics,
                        [filePath |-> file.filePath, error |-> "Validation",
                         issues |-> Issues(file.data)])
                /\ UNCHANGED documents
           ELSE IF ~CompileOk(file.content)
           THEN UNCHANGED <<documents, diagnostics>>
           ELSE /\ documents' = Append(documents, transform(file))
                /\ UNCHANGED diagnostics
    /\ next' = next + 1
    /\ UNCHANGED <<sources, state, allPosts, route, listing, detail>>

\* one file through schema and transform: a record, or a reported error and
\* no record
ParseFile ==
    /\ state = "uninitialized"
    /\ next <= Len(sources)
    /\ LET file == sources[next]
       IN  IF Issues(file.data) # {}
           THEN /\ diagnostics' = Append(diagnostics,
                        [filePath |-> file.filePath, error |-> "Validation",
                         issues |-> Issues(file.data)])
                /\ UNCHANGED documents
           ELSE IF ~CompileOk(file.content)
           THEN /\ diagnostics' = Append(diagnostics,
                        [filePath |-> file.filePath, error |-> "Transform",
                         issues |-> {}])
                /\ UNCHANGED documents
           ELSE /\ documents' = Append(documents, transform(file))
                /\ UNCHANGED diagnostics
    /\ next' = next + 1
    /\ UNCHANGED <<sources, state, allPosts, route, listing, detail>>

\* Publish that can run again and marks the collection uninitialized when
\* it does
PublishAgain ==
    /\ next > Len(sources)
    /\ allPosts' = documents
    /\ state' = (IF state = "ready" THEN "uninitialized" ELSE "ready")
    /\ UNCHANGED <<sources, next, documents, diagnostics, route, listing, detail>>

\* Publish with the records newest-discovered first
PublishReversed ==
    /\ state = "uninitialized"
    /\ next > Len(sources)
    /\ allPosts' = [i \in 1..Len(documents) |-> documents[Len(documents) + 1 - i]]
    /\ state' = "ready"
    /\ UNCHANGED <<sources, next, documents, diagnostics, route, listing, detail>>

\* the generated module: allPosts is the records of the files that passed
Publish ==
    /\ state = "uninitialized"
    /\ next > Len(sources)
    /\ allPosts' = documents
    /\ state' = "ready"
    /\ UNCHANGED <<sources, next, documents, diagnostics, route, listing, detail>>

\* ------------------------------------------------------------ listing page
\* ["All", ...new Set(allPosts.map(post => post.category))]
categories(posts) ==
    LET cats == [i \in 1..Len(posts) |-> posts[i].category.s]
        first(i) == \A j \in 1..(i - 1) : cats[j] # cats[i]
        RECURSIVE uniq(_)
        uniq(i) == IF i > Len(cats) THEN <<>>
                   ELSE (IF first(i) THEN <<cats[i]>> ELSE <<>>) \o uniq(i + 1)
    IN  <<All>> \o uniq(1)

\* matchesSearch that lowers the post's text only
matchesSearchRawTerm(p, term) ==
    \/ includes(toLowerCase(p.title.s), term)
    \/ includes(toLowerCase(p.description.s), term)

matchesSearch(p, term) ==
    \/ includes(toLowerCase(p.title.s), toLowerCase(term))
    \/ includes(toLowerCase(p.description.s), toLowerCase(term))

matchesCategory(p, category) == category = All \/ p.category.s = category

\* allPosts.filter(post => matchesSearch && matchesCategory)
filteredPosts(posts, term, category) ==
    SelectSeq(posts, LAMBDA p : matchesSearch(p, term) /\ matchesCategory(p, category))

\* the category filter of the listing page alone: nothing typed
byCategory(posts, category) == filteredPosts(posts, <<>>, category)

\* featuredPosts with `post.featured !== undefined`
featuredPostsDefined(posts) == SelectSeq(posts, LAMBDA p : p.featured.t # "undefined")

\* allPosts.filter(post => post.featured)
featuredPosts(posts) == SelectSeq(posts, LAMBDA p : Truthy(p.featured))

\* featuredSection taken from the filtered list
featuredSectionFiltered(posts, term, category) ==
    slice(featuredPosts(filteredPosts(posts, term, category)), 1)

\* featuredPosts.slice(0, 1), rendered when featuredPosts.length > 0; the
\* render has the search term and the category at hand and uses neither
featuredSection(posts, term, category) == slice(featuredPosts(posts), 1)

\* gridPosts without the filter on featured
gridPostsAll(posts, term, category) == filteredPosts(posts, term, category)

\* filteredPosts.filter(post => !post.featured)
gridPosts(posts, term, category) ==
    SelectSeq(filteredPosts(posts, term, category), LAMBDA p : ~Truthy(p.featured))

\* noArticlesFound tested on the cards of the grid
noArticlesFoundGrid(posts, term, category) ==
    Len(gridPosts(posts, term, category)) = 0

\* filteredPosts.length === 0: the "No articles found" panel is rendered
noArticlesFound(posts, term, category) ==
    Len(filteredPosts(posts, term, category)) = 0

\* the search of the listing page alone: no category chosen
search(posts, term) == filteredPosts(posts, term, All)

\* navigation to /blog mounts BlogPage with its initial state; the detail
\* page, if one was on screen, is gone
OpenBlog ==
    /\ state = "ready"
    /\ route # "/blog"
    /\ route' = "/blog"
    /\ searchTerm' = <<>>
    /\ activeCategory' = All
    /\ params' = <<>>
    /\ post' = <<>>
    /\ relatedPosts' = <<>>
    /\ UNCHANGED build

\* setSearchTerm that narrows allPosts itself instead of a filtered copy
setSearchTermInPlace ==
    /\ route = "/blog"
    /\ \E value \in SearchTerms :
          /\ value # searchTerm
          /\ searchTerm' = value
          /\ allPosts' = filteredPosts(allPosts, value, activeCategory)
    /\ UNCHANGED <<sources, next, documents, diagnostics, state, route,
                   activeCategory, detail>>

\* onChange of the search input
setSearchTerm ==
    /\ route = "/blog"
    /\ \E value \in SearchTerms :
          /\ value # searchTerm
          /\ searchTerm' = value
    /\ UNCHANGED <<build, route, activeCategory, detail>>

\* onClick of a category button
setActiveCategory ==
    /\ route = "/blog"
    /\ \E i \in 1..Len(categories(allPosts)) :
          /\ categories(allPosts)[i] # activeCategory
          /\ activeCategory' = categories(allPosts)[i]
    /\ UNCHANGED <<build, route, searchTerm, detail>>

\* Clear Filters offered whatever the filtered list holds
ClearFiltersAlways ==
    /\ route = "/blog"
    /\ searchTerm' = <<>>
    /\ activeCategory' = All
    /\ UNCHANGED <<build, route, detail>>

\* onClick of Clear Filters, rendered when filteredPosts.length === 0
ClearFilters ==
    /\ route = "/blog"
    /\ noArticlesFound(allPosts, searchTerm, activeCategory)
    /\ searchTerm' = <<>>
    /\ activeCategory' = All
    /\ UNCHANGED <<build, route, detail>>

\* ------------------------------------------------------------- detail page
RelatedLimit == 3

\* find that falls back to the first record
findOrFirst(posts, slug) ==
    LET hits == SelectSeq(posts, LAMBDA p : p.slug = slug)
    IN  IF hits = <<>> THEN slice(posts, 1) ELSE slice(hits, 1)

\* allPosts.find(post => post.slug === slug), as a sequence of 0 or 1 record
find(posts, slug) ==
    LET hits == SelectSeq(posts, LAMBDA p : p.slug = slug)
    IN  slice(hits, 1)

\* related without the test on the slug
relatedNoExclude(posts, record, limit) ==
    slice(SelectSeq(posts, LAMBDA p : p.category = record.category), limit)

\* related that keeps the last `limit` matches
relatedLast(posts, record, limit) ==
    LET hits == SelectSeq(posts, LAMBDA p : p.category = record.category
                                            /\ p.slug # record.slug)
    IN  SubSeq(hits, IF Len(hits) > limit THEN Len(hits) - limit + 1 ELSE 1,
               Len(hits))

\* allPosts.filter(p => p.category === post.category && p.slug !== post.slug)
\*         .slice(0, limit)
related(posts, record, limit) ==
    slice(SelectSeq(posts, LAMBDA p : p.category = record.category
                                      /\ p.slug # record.slug), limit)

\* the slugs a request can carry
Requests(posts) == { posts[i].slug : i \in 1..Len(posts) } \cup { UnknownSlug }

\* render of /blog/[slug]: notFound() for an unknown slug, else the post and
\* its related posts
BlogPost ==
    /\ state = "ready"
    /\ \E slug \in Requests(allPosts) :
          /\ ~(route = "/blog/[slug]" /\ params = slug)
          /\ params' = slug
          /\ post' = find(allPosts, slug)
          /\ IF find(allPosts, slug) = <<>>
             THEN /\ route' = "not-found"
                  /\ relatedPosts' = <<>>
             ELSE /\ route' = "/blog/[slug]"
                  /\ relatedPosts' = related(allPosts, find(allPosts, slug)[1],
                                             RelatedLimit)
    /\ searchTerm' = <<>>
    /\ activeCategory' = All
    /\ UNCHANGED build

Next ==
    \/ ParseFile
    \/ Publish
    \/ OpenBlog
    \/ setSearchTerm
    \/ setActiveCategory
    \/ ClearFilters
    \/ BlogPost

Spec == Init /\ [][Next]_vars

InitMissing == InitOf(PoolMissing, MaxFiles)
SpecMissing == InitMissing /\ [][Next]_vars

InitRelated == InitOf(PoolRelated, MaxRelated)
SpecRelated == InitRelated /\ [][Next]_vars

InitCategory == InitOf(PoolCategory, MaxFiles)
SpecCategory == InitCategory /\ [][Next]_vars

InitTyped == InitOf(PoolTyped, MaxFiles)
SpecTyped == InitTyped /\ [][Next]_vars

\* ------------------------------------------------------------------ claims
\* the required keys a file omits
MissingKeys(f) == {k \in RequiredKeys : f.data[k].t = "undefined"}

\* a file with every required key as text, every optional key omitted or of
\* its type, and a body whose tags balance
Complete(f) ==
    /\ \A k \in {"title", "description", "date", "author", "category"} :
          f.data[k].t = "string"
    /\ f.data["tags"].t \in {"undefined", "array"}
    /\ f.data["image"].t \in {"undefined", "string"}
    /\ f.data["featured"].t \in {"undefined", "boolean"}
    /\ f.content = Body

\* the positions in allPosts of the records of file f
RecordsOf(f) == {j \in 1..Len(allPosts) : allPosts[j]._meta.filePath = f.filePath}

\* C1: once the collection is published, a file that omits a required key
\* has a validation error naming each omitted key and no record, and every
\* complete file has its record.
C1_MissingFieldSkipped ==
    state = "ready" =>
        \A i \in 1..Len(sources) :
            LET f == sources[i]
            IN  /\ MissingKeys(f) # {} =>
                      /\ \E d \in 1..Len(diagnostics) :
                            /\ diagnostics[d].filePath = f.filePath
                            /\ diagnostics[d].error = "Validation"
                            /\ \A k \in MissingKeys(f) :
                                  \E issue \in diagnostics[d].issues : issue.path = k
                      /\ RecordsOf(f) = {}
                /\ Complete(f) => Cardinality(RecordsOf(f)) = 1

C1_Witness ==
    /\ state = "ready"
    /\ \E i, j \in 1..Len(sources) :
          /\ MissingKeys(sources[i]) = {"author"}
          /\ Complete(sources[j])
          /\ i < j
    /\ Len(allPosts) >= 1
    /\ Len(diagnostics) >= 1

\* C2: the record of a file that omits `featured` has featured = false, a
\* boolean.
C2_FeaturedDefaultsFalse ==
    \A i \in 1..Len(sources) :
        sources[i].data["featured"].t = "undefined" =>
            \A j \in RecordsOf(sources[i]) :
                /\ allPosts[j].featured.t = "boolean"
                /\ allPosts[j].featured.b = FALSE

C2_Witness ==
    /\ state = "ready"
    /\ \E i \in 1..Len(sources) :
          /\ sources[i].data["featured"].t = "undefined"
          /\ RecordsOf(sources[i]) # {}

\* C3 as stated: the record of a file that omits `tags` has tags = [], an
\* array.
C3_TagsDefaultEmpty ==
    \A i \in 1..Len(sources) :
        sources[i].data["tags"].t = "undefined" =>
            \A j \in RecordsOf(sources[i]) :
                /\ allPosts[j].tags.t = "array"
                /\ allPosts[j].tags.a = <<>>

\* C3 amended: the record of a file that omits `tags` has tags undefined;
\* the record of a file that gives tags has that array.
C3_TagsStayUndefined ==
    \A i \in 1..Len(sources) :
        \A j \in RecordsOf(sources[i]) :
            IF sources[i].data["tags"].t = "undefined"
            THEN allPosts[j].tags.t = "undefined"
            ELSE /\ allPosts[j].tags.t = "array"
                 /\ allPosts[j].tags.a = sources[i].data["tags"].a

C3_Witness ==
    /\ state = "ready"
    /\ \E i \in 1..Len(sources) :
          /\ sources[i].data["tags"].t = "undefined"
          /\ RecordsOf(sources[i]) # {}

\* C4: no two records of the published collection have the same slug.
C4_SlugInjective ==
    \A i, j \in 1..Len(allPosts) :
        i # j => allPosts[i].slug # allPosts[j].slug

\* two files that differ only in their directory are both published
C4_Witness ==
    /\ state = "ready"
    /\ \E i, j \in 1..Len(allPosts) :
          /\ allPosts[i]._meta.filePath = <<"a", "/", "x", ".", "m", "d", "x">>
          /\ allPosts[j]._meta.filePath = <<"b", "/", "x", ".", "m", "d", "x">>
          /\ allPosts[i].title = allPosts[j].title
          /\ allPosts[i].category = allPosts[j].category

\* C5: the slug of a record, followed by ".mdx", is the path of its file
\* inside the content root; every separator of the path is in the slug, at
\* its place.
C5_SlugIsPathWithoutExt ==
    \A i \in 1..Len(sources) :
        \A j \in RecordsOf(sources[i]) :
            LET path == sources[i].filePath
                slug == allPosts[j].slug
            IN  /\ slug \o <<".", "m", "d", "x">> = path
                /\ \A k \in 1..Len(path) :
                      path[k] = "/" => (k <= Len(slug) /\ slug[k] = "/")

C5_Witness ==
    /\ state = "ready"
    /\ \E j \in 1..Len(allPosts) :
          \E k \in 1..Len(allPosts[j].slug) : allPosts[j].slug[k] = "/"

\* C6: the url of a record is "/blog/" followed by its slug.
C6_UrlIsPrefixPlusSlug ==
    \A j \in 1..Len(allPosts) :
        /\ allPosts[j].url = <<"/", "b", "l", "o", "g", "/">> \o allPosts[j].slug
        /\ Len(allPosts[j].url) = 6 + Len(allPosts[j].slug)

C6_Witness ==
    /\ state = "ready"
    /\ \E j \in 1..Len(allPosts) :
          /\ allPosts[j].slug = <<"y">>
          /\ allPosts[j].url = <<"/", "b", "l", "o", "g", "/", "y">>

\* r is exactly the records of allPosts at the positions S, in the order of
\* allPosts
ExactlyInOrder(r, S) ==
    /\ Len(r) = Cardinality(S)
    /\ \A j \in S : r[Cardinality({i \in S : i <= j})] = allPosts[j]

\* r is the first n records of allPosts at the positions S (all of them when
\* S has fewer), in the order of allPosts
FirstInOrder(r, S, n) ==
    /\ Len(r) = (IF Cardinality(S) < n THEN Cardinality(S) ELSE n)
    /\ \A j \in S :
          Cardinality({i \in S : i <= j}) <= n =>
              r[Cardinality({i \in S : i <= j})] = allPosts[j]

\* the positions of the records of A's category other than A
Candidates(A) ==
    {j \in 1..Len(allPosts) : /\ allPosts[j].category.s = A.category.s
                              /\ allPosts[j].slug # A.slug}

\* r has none of A's slug, at most n records, and only records of A's category
RelatedSafe(r, A, n) ==
    /\ Len(r) <= n
    /\ \A k \in 1..Len(r) : /\ r[k].slug # A.slug
                            /\ r[k].category.s = A.category.s

\* C7: the related posts of the detail page, and related(allPosts, A, limit)
\* for every record A and every limit, never hold A, never hold more than
\* the limit (3 on the page) and hold only records of A's category.
C7_RelatedSafe ==
    /\ route = "/blog/[slug]" =>
          /\ Len(post) = 1
          /\ RelatedSafe(relatedPosts, post[1], 3)
    /\ \A a \in 1..Len(allPosts) : \A limit \in 0..MaxLimit :
          RelatedSafe(related(allPosts, allPosts[a], limit), allPosts[a], limit)

\* the page shows 3 related posts although more records qualify
C7_Witness ==
    /\ route = "/blog/[slug]"
    /\ Len(relatedPosts) = 3
    /\ Cardinality(Candidates(post[1])) > 3
    /\ \E j \in 1..Len(allPosts) : allPosts[j].category # post[1].category

\* C8: the related posts are the first `limit` records, in the order of the
\* collection, of those of the record's category other than the record.
C8_RelatedIsPrefixInOrder ==
    /\ route = "/blog/[slug]" =>
          FirstInOrder(relatedPosts, Candidates(post[1]), 3)
    /\ \A a \in 1..Len(allPosts) : \A limit \in 0..MaxLimit :
          FirstInOrder(related(allPosts, allPosts[a], limit),
                       Candidates(allPosts[a]), limit)

\* 3 of more than 3 candidates are shown, and a record that does not qualify
\* stands between two of them in the collection
C8_Witness ==
    /\ route = "/blog/[slug]"
    /\ Len(relatedPosts) = 3
    /\ Cardinality(Candidates(post[1])) > 3
    /\ \E i, j, k \in 1..Len(allPosts) :
          /\ i < j /\ j < k
          /\ i \in Candidates(post[1])
          /\ j \notin Candidates(post[1])
          /\ k \in Candidates(post[1])
          /\ allPosts[k] = relatedPosts[3]

\* two characters that are equal or the two cases of one letter
SameLetter(c, d) ==
    \/ c = d
    \/ \E i \in 1..26 : {c, d} = {UpperChars[i], LowerChars[i]}

\* term occurs in text at some offset, letter case ignored
ContainsIgnoringCase(text, term) ==
    \E o \in 0..(Len(text) - Len(term)) :
        \A j \in 1..Len(term) : SameLetter(text[o + j], term[j])

\* the positions of the records whose title or description contains term
Matching(term) ==
    {j \in 1..Len(allPosts) :
        \/ ContainsIgnoringCase(allPosts[j].title.s, term)
        \/ ContainsIgnoringCase(allPosts[j].description.s, term)}

\* C9: search returns exactly the records whose title or description
\* contains the term, letter case ignored on both sides, in collection order.
C9_SearchCaseInsensitive ==
    /\ state = "ready" =>
          \A term \in SearchTerms :
              ExactlyInOrder(search(allPosts, term), Matching(term))
    /\ (route = "/blog" /\ activeCategory = <<"A", "l", "l">>) =>
          ExactlyInOrder(filteredPosts(allPosts, searchTerm, activeCategory),
                         Matching(searchTerm))

\* "SEO" typed: a record with title "Seo" and one with description "xsEO"
\* are listed, a third record is not
C9_Witness ==
    /\ route = "/blog"
    /\ activeCategory = <<"A", "l", "l">>
    /\ searchTerm = <<"S", "E", "O">>
    /\ LET r == filteredPosts(allPosts, searchTerm, activeCategory)
       IN  /\ \E k \in 1..Len(r) : r[k].title.s = <<"S", "e", "o">>
           /\ \E k \in 1..Len(r) : /\ r[k].title.s = <<"Q">>
                                   /\ r[k].description.s = <<"x", "s", "E", "O">>
           /\ Len(r) < Len(allPosts)

\* C10: the search for the empty term returns the whole collection, in its
\* order.
C10_EmptyTermMatchesAll ==
    /\ state = "ready" => search(allPosts, <<>>) = allPosts
    /\ (route = "/blog" /\ searchTerm = <<>> /\ activeCategory = <<"A", "l", "l">>) =>
          filteredPosts(allPosts, searchTerm, activeCategory) = allPosts

C10_Witness ==
    /\ route = "/blog"
    /\ searchTerm = <<>>
    /\ activeCategory = <<"A", "l", "l">>
    /\ Len(allPosts) = 3
    /\ allPosts[1].title # allPosts[2].title
    /\ allPosts[2].title # allPosts[3].title
\* category values no record need have
CategoryProbes == { <<"D">>, <<"d">>, <<"Z">> }

\* C11: for every category value that a record has (and for the probes),
\* the category filter returns exactly the records whose category is that
\* value, letter for letter, in collection order.
C11_ByCategoryExact ==
    state = "ready" =>
        \A c \in {allPosts[j].category.s : j \in 1..Len(allPosts)}
                    \cup CategoryProbes :
            ExactlyInOrder(byCategory(allPosts, c),
                           {i \in 1..Len(allPosts) : allPosts[i].category.s = c})
\* the files whose front matter omits `featured`
OmitFeatured == {sources[i].filePath : i \in {k \in 1..Len(sources) :
                                           sources[k].data["featured"].t = "undefined"}}

\* C12: the featured posts are exactly the records whose featured is the
\* boolean true, in collection order; none comes from a file that omits
\* `featured`.
C12_FeaturedExact ==
    state = "ready" =>
        LET r == featuredPosts(allPosts)
        IN  /\ ExactlyInOrder(r, {j \in 1..Len(allPosts) :
                                    /\ allPosts[j].featured.t = "boolean"
                                    /\ allPosts[j].featured.b = TRUE})
            /\ \A k \in 1..Len(r) : r[k]._meta.filePath \notin OmitFeatured

\* the listing page is on screen, a record of a file without `featured`
\* comes first and a featured record follows
C12_Witness ==
    /\ route = "/blog"
    /\ Len(allPosts) >= 2
    /\ allPosts[1]._meta.filePath \in OmitFeatured
    /\ Len(featuredPosts(allPosts)) = 1
    /\ featuredPosts(allPosts)[1] = allPosts[2]
\* the positions in sources of the complete files
CompleteSources == {i \in 1..Len(sources) : Complete(sources[i])}

\* C13: the published collection has one record per complete file and no
\* other, and the records stand in the order in which their files were
\* discovered, whatever their dates.
C13_DiscoveryOrder ==
    state = "ready" =>
        /\ Len(allPosts) = Cardinality(CompleteSources)
        /\ \A i \in CompleteSources :
              allPosts[Cardinality({k \in CompleteSources : k <= i})]._meta.filePath
                  = sources[i].filePath

\* three files, the middle one rejected, the older of the other two first
C13_Witness ==
    /\ state = "ready"
    /\ Len(sources) = 3
    /\ CompleteSources = {1, 3}
    /\ Len(allPosts) = 2
    /\ allPosts[1].date.s = <<"2", "3">>
    /\ allPosts[2].date.s = <<"2", "5">>
\* the positions in diagnostics of the reports about file f
ReportsOf(f) == {d \in 1..Len(diagnostics) : diagnostics[d].filePath = f.filePath}

BodyBroken(f) ==
    /\ MissingKeys(f) = {}
    /\ \A k \in DOMAIN f.data : f.data[k].t \in {"undefined", "string", "array"}
    /\ \E i \in 1..Len(f.content) : f.content[i] = "<"
    /\ \A i \in 1..Len(f.content) : f.content[i] # ">"

\* C15: once published, a file whose body does not compile has no record
\* and a compilation report; the run went through every file, and every
\* complete file, before or after the broken one, has its record.
C15_CompileFailureSkipped ==
    state = "ready" =>
        /\ next = Len(sources) + 1
        /\ \A i \in 1..Len(sources) :
              /\ BodyBroken(sources[i]) =>
                    /\ RecordsOf(sources[i]) = {}
                    /\ \E d \in ReportsOf(sources[i]) :
                          diagnostics[d].error = "Transform"
              /\ Complete(sources[i]) => RecordsOf(sources[i]) # {}

\* a broken body first, a complete file after it, published
C15_Witness ==
    /\ state = "ready"
    /\ \E i, j \in 1..Len(sources) :
          /\ i < j
          /\ BodyBroken(sources[i])
          /\ Complete(sources[j])
          /\ RecordsOf(sources[j]) # {}
\* the positions of the records whose slug is the given one
WithSlug(slug) == {j \in 1..Len(allPosts) : allPosts[j].slug = slug}

\* C17: the lookup by slug gives the record of the collection that has the
\* slug when there is one, and nothing (the page answers "not found", no
\* error) when no record has it.
C17_FindBySlug ==
    /\ route = "/blog/[slug]" =>
          /\ Len(post) = 1
          /\ post[1].slug = params
          /\ \E j \in WithSlug(params) : allPosts[j] = post[1]
    /\ route = "not-found" =>
          /\ post = <<>>
          /\ WithSlug(params) = {}
    /\ state = "ready" =>
          \A slug \in Requests(allPosts) :
              IF WithSlug(slug) = {}
              THEN find(allPosts, slug) = <<>>
              ELSE \E j \in WithSlug(slug) : find(allPosts, slug) = <<allPosts[j]>>

\* the detail page shows the second record of the collection
C17_Witness ==
    /\ route = "/blog/[slug]"
    /\ Len(allPosts) >= 2
    /\ post = <<allPosts[2]>>
    /\ allPosts[2].slug # allPosts[1].slug

\* the detail page was asked for a slug that no record has
C17_WitnessAbsent ==
    /\ route = "not-found"
    /\ Len(allPosts) >= 1
    /\ post = <<>>
Declared(k) ==
    CASE k = "tags" -> {"undefined", "array"}
      [] k = "image" -> {"undefined", "string"}
      [] k = "featured" -> {"undefined", "boolean"}
      [] OTHER -> {"string"}

\* the keys of a file whose value is of another kind than declared
WrongKeys(f) == {k \in DOMAIN f.data : f.data[k].t \notin Declared(k)}

\* C22: a file in which a key holds a value of another type than declared
\* (featured: "yes", tags given as text) has no record and a validation
\* report naming the key; the value is not coerced.
C22_WrongTypeRejected ==
    state = "ready" =>
        \A i \in 1..Len(sources) :
            WrongKeys(sources[i]) # {} =>
                /\ RecordsOf(sources[i]) = {}
                /\ \E d \in ReportsOf(sources[i]) :
                      /\ diagnostics[d].error = "Validation"
                      /\ \A k \in WrongKeys(sources[i]) :
                            \E issue \in diagnostics[d].issues : issue.path = k

\* featured: "yes" was discovered, and another file is published
C22_Witness ==
    /\ state = "ready"
    /\ \E i \in 1..Len(sources) :
          /\ sources[i].data["featured"].t = "string"
          /\ sources[i].data["featured"].s = <<"y", "e", "s">>
    /\ Len(allPosts) >= 1
\* text that `new Date(text)` reads as a date: digits and dashes here
DateParseable(text) ==
    /\ text # <<>>
    /\ \A i \in 1..Len(text) :
          text[i] \in {"0", "1", "2", "3", "4", "5", "6", "7", "8", "9", "-"}

\* C23: every published record's date is date-parseable, and a file whose
\* date is text that is no date has no record and a validation report.
C23_DateParseable ==
    /\ \A j \in 1..Len(allPosts) : DateParseable(allPosts[j].date.s)
    /\ state = "ready" =>
          \A i \in 1..Len(sources) :
              (/\ sources[i].data["date"].t = "string"
               /\ ~DateParseable(sources[i].data["date"].s)) =>
                  /\ RecordsOf(sources[i]) = {}
                  /\ \E d \in ReportsOf(sources[i]) :
                        diagnostics[d].error = "Validation"
\* the keys among title, description, author and category that a file gives
\* as the empty text
EmptyKeys(f) ==
    {k \in {"title", "description", "author", "category"} :
        f.data[k].t = "string" /\ f.data[k].s = <<>>}

\* C24: every published record has a non-empty title, description, author
\* and category, and a file that gives one of them as the empty text has no
\* record.
C24_NonEmptyFields ==
    /\ \A j \in 1..Len(allPosts) :
          /\ allPosts[j].title.s # <<>>
          /\ allPosts[j].description.s # <<>>
          /\ allPosts[j].author.s # <<>>
          /\ allPosts[j].category.s # <<>>
    /\ state = "ready" =>
          \A i \in 1..Len(sources) :
              EmptyKeys(sources[i]) # {} => RecordsOf(sources[i]) = {}
\* record r of file f: every required key is text and as written, image is
\* text as written or absent, featured is a boolean (false when omitted),
\* tags is an array of text as written or, when omitted, `noTags`; besides
\* the file's own content and _meta, only mdx, slug and url are added
TypedRecord(r, f, noTags) ==
    /\ \A k \in {"title", "description", "date", "author", "category"} :
          r[k].t = "string" /\ r[k] = f.data[k]
    /\ r.image.t \in {"undefined", "string"} /\ r.image = f.data["image"]
    /\ r.featured.t = "boolean"
    /\ r.featured.b = (IF f.data["featured"].t = "undefined" THEN FALSE
                       ELSE f.data["featured"].b)
    /\ IF f.data["tags"].t = "undefined"
       THEN r.tags = noTags
       ELSE /\ r.tags = f.data["tags"]
            /\ r.tags.t = "array"
            /\ \A i \in 1..Len(r.tags.a) : r.tags.a[i].t = "string"
    /\ DOMAIN r = {"title", "description", "date", "author", "category", "tags",
                   "image", "featured", "content", "_meta", "mdx", "slug", "url"}
    /\ r.content = f.content
    /\ r.mdx # <<>> /\ r.slug # <<>> /\ r.url # <<>>

\* every file ends as a record of the given shape or as a report with its
\* detail
RecordOrError(noTags) ==
    /\ \A i \in 1..Len(sources) : \A j \in RecordsOf(sources[i]) :
          TypedRecord(allPosts[j], sources[i], noTags)
    /\ state = "ready" =>
          \A i \in 1..Len(sources) :
              RecordsOf(sources[i]) = {} =>
                  \E d \in ReportsOf(sources[i]) :
                      \/ diagnostics[d].error = "Validation"
                            /\ diagnostics[d].issues # {}
                      \/ diagnostics[d].error = "Transform"

\* C26 as stated: every record has every schema field of its declared type,
\* the optional fields at their documented defaults (featured false, tags
\* empty), the validated fields unchanged, and only mdx, slug and url added;
\* every other file has a structured error.
C26_TypedWithDefaults == RecordOrError([t |-> "array", s |-> <<>>, b |-> FALSE, a |-> <<>>])

\* C26 amended: as stated, except that tags has no default: the record of a
\* file that omits tags has tags undefined.
C26_TypedOrError == RecordOrError([t |-> "undefined", s |-> <<>>, b |-> FALSE, a |-> <<>>])

\* a record of a file without tags is published and a file with a value of
\* the wrong type is reported
C26_Witness ==
    /\ state = "ready"
    /\ \E i \in 1..Len(sources) :
          /\ sources[i].data["tags"].t = "undefined"
          /\ RecordsOf(sources[i]) # {}
    /\ \E i \in 1..Len(sources) :
          /\ WrongKeys(sources[i]) # {}
          /\ ReportsOf(sources[i]) # {}
\* the positions of the records that the chosen category admits
InCategory(category) ==
    {j \in 1..Len(allPosts) :
        category = <<"A", "l", "l">> \/ allPosts[j].category.s = category}

\* C27: on the listing page the "No articles found" panel is rendered if
\* and only if no record matches both the search term and the active
\* category, featured records counted, however many cards the grid shows.
C27_EmptyPanelIffNoMatch ==
    route = "/blog" =>
        (noArticlesFound(allPosts, searchTerm, activeCategory)
            <=> Matching(searchTerm) \cap InCategory(activeCategory) = {})

\* the only records that match are featured: the grid has no card and the
\* panel is not rendered
C27_Witness ==
    /\ route = "/blog"
    /\ activeCategory # <<"A", "l", "l">>
    /\ Matching(searchTerm) \cap InCategory(activeCategory) # {}
    /\ Len(gridPosts(allPosts, searchTerm, activeCategory)) = 0
    /\ ~noArticlesFound(allPosts, searchTerm, activeCategory)
\* C28: on the listing page the grid shows exactly the records that match
\* the search term, that the active category admits ("All" admits every
\* one) and whose featured is false, in collection order; no record with
\* featured = true is in the grid.
C28_GridExact ==
    route = "/blog" =>
        LET grid == gridPosts(allPosts, searchTerm, activeCategory)
        IN  /\ ExactlyInOrder(grid,
                  {j \in Matching(searchTerm) \cap InCategory(activeCategory) :
                      allPosts[j].featured.t = "boolean"
                          /\ allPosts[j].featured.b = FALSE})
            /\ \A k \in 1..Len(grid) : grid[k].featured.b # TRUE

\* a search that a featured record matches too: it is left out of the grid,
\* which still has a card
C28_Witness ==
    /\ route = "/blog"
    /\ searchTerm # <<>>
    /\ Len(gridPosts(allPosts, searchTerm, activeCategory)) >= 1
    /\ Len(gridPosts(allPosts, searchTerm, activeCategory))
          < Len(filteredPosts(allPosts, searchTerm, activeCategory))
    /\ Len(filteredPosts(allPosts, searchTerm, activeCategory)) < Len(allPosts)
\* the positions of the records whose featured is true
FeaturedAt == {j \in 1..Len(allPosts) : allPosts[j].featured.b = TRUE}

\* C29: on the listing page the Featured Article section shows no post when
\* no record is featured and else exactly the first featured record of the
\* collection, whatever the search term and the active category are.
C29_FeaturedSectionFixed ==
    route = "/blog" =>
        LET shown == featuredSection(allPosts, searchTerm, activeCategory)
        IN  /\ Len(shown) <= 1
            /\ FeaturedAt = {} => shown = <<>>
            /\ FeaturedAt # {} =>
                  \E j \in FeaturedAt : /\ \A i \in FeaturedAt : j <= i
                                        /\ shown = <<allPosts[j]>>

\* two featured records after one that is not; a search that matches
\* nothing and a category are set, the section still shows the first
C29_Witness ==
    /\ route = "/blog"
    /\ searchTerm = <<"z">>
    /\ activeCategory # <<"A", "l", "l">>
    /\ FeaturedAt = {2, 3}
    /\ featuredSection(allPosts, searchTerm, activeCategory) = <<allPosts[2]>>
\* a step of the listing page that changes both filters at once
BothFiltersChange ==
    /\ route = "/blog"
    /\ route' = "/blog"
    /\ searchTerm' # searchTerm
    /\ activeCategory' # activeCategory

\* what a step that changes both filters has to be: taken where no post
\* matches, to the empty term and "All", with every post listed after it
ClearsFromNoMatch ==
    /\ noArticlesFound(allPosts, searchTerm, activeCategory)
    /\ searchTerm' = <<>>
    /\ activeCategory' = <<"A", "l", "l">>
    /\ allPosts' = allPosts
    /\ filteredPosts(allPosts', searchTerm', activeCategory') = allPosts'

\* C30: activeCategory is always "All" or the category of some post of the
\* collection; a step of the listing page changes the search term alone or
\* the category alone, except the Clear Filters step, which is taken only
\* where no post matches, sets the term to "" and the category to "All", and
\* leaves the filtered list equal to the whole collection.
C30_FiltersIndependent ==
    /\ [](\/ activeCategory = <<"A", "l", "l">>
          \/ \E j \in 1..Len(allPosts) : allPosts[j].category.s = activeCategory)
    /\ [][BothFiltersChange => ClearsFromNoMatch]_vars

\* Clear Filters is offered with both filters set: a term and a category
\* that have posts each, and no post in common
C30_Witness ==
    /\ route = "/blog"
    /\ searchTerm # <<>>
    /\ activeCategory # <<"A", "l", "l">>
    /\ noArticlesFound(allPosts, searchTerm, activeCategory)
    /\ filteredPosts(allPosts, searchTerm, <<"A", "l", "l">>) # <<>>
====
